---- MODULE Spec2Model ----
(***************************************************************************)
(* Model of the SSE connection registry (class SSEManager,                 *)
(* src/src/features/sse/services/sse-manager.ts).                          *)
(*                                                                         *)
(* JavaScript runs every method of the manager and the heartbeat timer     *)
(* callback to completion on one thread, so each of them is one action.    *)
(* The output handle of a client is a ReadableStreamDefaultController:     *)
(* enqueue() and close() both throw once the stream is no longer readable  *)
(* (closed by the manager, or cancelled by the consumer of the response    *)
(* body).  JSON.stringify throws on a payload that cannot be serialized,   *)
(* which makes a write fail while the handle itself is healthy.            *)
(***************************************************************************)
EXTENDS Integers, Sequences, FiniteSets, TLC

\* ---------------------------------------------------------------- bounds
\* number of client ids generated over the lifetime of the registry
MaxIds == 3
\* the clock stops advancing at MaxTime
MaxTime == 1
\* operations are explored while the lifetime counters stay within these
MaxEventsSent == 4
MaxErrors == 2
\* number of consecutive heartbeat sweeps a dead client is followed through
MaxSweeps == 4
\* number of EventSource objects of one hook left unclosed at a time, and
\* of reconnection timers pending at a time
MaxSources == 2

\* ----------------------------------------------------- configuration
\* the configuration the registry is constructed with (times in clock ticks)
SmallConfig ==
  [heartbeatInterval |-> 1, maxConnections |-> 2, connectionTimeout |-> 0]

\* a configuration in which heartbeats are more frequent than the timeout,
\* as in the defaults (30 s and 5 min) and in the test suite (100 and 1000)
KeepAliveConfig ==
  [heartbeatInterval |-> 1, maxConnections |-> 1, connectionTimeout |-> 2]

\* ------------------------------------------------------------- values
\* an absent optional argument (userId?, sessionId?, targetId?)
Undefined == "undefined"
\* generateClientId: the n-th generated id (timestamp + random suffix, taken
\* to be collision free)
IdNames == <<"c1", "c2", "c3", "c4", "c5", "c6">>
generateClientId(n) == IdNames[n]
AllIds == {IdNames[n] : n \in 1..MaxIds}

\* JavaScript truthiness of an optional string: undefined and "" are falsy
Truthy(s) == s # Undefined /\ s # ""

\* (userId, sessionId) pairs passed to connectClient
Profiles ==
  { <<"u1", "s1">>, <<"u1", "s2">>, <<"u2", "s1">>, <<"", Undefined>> }

\* events passed to the send operations; data "cyclic" stands for a payload
\* JSON.stringify throws on
Events ==
  { [event |-> "msg", data |-> "obj"], [event |-> "msg", data |-> "cyclic"] }
\* the `connected` event sent without the id of the client
ConnectedEvent_Anonymous(id) == [event |-> "connected", data |-> "obj"]
\* the `connected` event of connectClient: its data carries the clientId
\* (and a timestamp, left out)
ConnectedEvent(id) == [event |-> "connected", data |-> id]
HeartbeatEvent == [event |-> "heartbeat", data |-> "obj"]

\* (target, targetId) pairs passed to sendMessage
Addresses ==
  { <<"all", Undefined>>, <<"bogus", "u1">>, <<Undefined, Undefined>>,
    <<"user", "u1">>, <<"user", Undefined>>, <<"session", "s1">>,
    <<"session", "">>, <<"client", "c1">>, <<"client", Undefined>> }

VARIABLES
  config,              \* this.config
  clients,             \* Map clientId -> SSEClient
  userConnections,     \* Map userId -> Set of clientId
  sessionConnections,  \* Map sessionId -> Set of clientId
  heartbeatTimer,      \* this.heartbeatInterval # null
  stats,               \* totalConnections, totalEventsSent, totalErrors
  streamOpen,          \* per generated id: its stream is still readable
  nextId,              \* number of the next id to generate
  now,                 \* Date.now()
  lastBeat,            \* time of the last timer callback (or construction)
  fmtEvent,            \* the event handed to formatSSEMessage
  sseMessage,          \* the frame formatSSEMessage returned for it
  isConnected,         \* useSSE: state isConnected
  isConnecting,        \* useSSE: state isConnecting
  reconnectAttempts,   \* useSSE: reconnectAttemptsRef.current
  shouldReconnect,     \* useSSE: shouldReconnectRef.current
  eventSource,         \* useSSE: the EventSource eventSourceRef.current refers to
  orphans,             \* useSSE: unclosed EventSources no ref refers to any more
  timerRef,            \* useSSE: the timer in reconnectTimeoutRef is pending
  orphanTimers,        \* useSSE: pending timers no ref refers to any more
  scheduled,           \* reconnections scheduled since the last open
  sseManager,          \* sse-service: the module variable sseManager is not null
  timers               \* heartbeat timers running in managers initializeSSE made

\* the state of the manager, of the frame formatter, of one useSSE hook and
\* of the service module
managerVars == <<config, clients, userConnections, sessionConnections,
                 heartbeatTimer, stats, streamOpen, nextId, now, lastBeat>>
formatVars == <<fmtEvent, sseMessage>>
hookVars == <<isConnected, isConnecting, reconnectAttempts, shouldReconnect,
              eventSource, orphans, timerRef, orphanTimers, scheduled>>
serviceVars == <<sseManager, timers>>
outsideManager == <<formatVars, hookVars, serviceVars>>

vars == <<managerVars, formatVars, hookVars, serviceVars>>


\* ------------------------------------------------- registry as a value
\* The methods are written as functions from a registry value to a registry
\* value and a result; trace lists, in order, what the call did.
Cur ==
  [ clients |-> clients, userConnections |-> userConnections,
    sessionConnections |-> sessionConnections, stats |-> stats,
    streamOpen |-> streamOpen, config |-> config, trace |-> << >> ]

\* one entry of a trace; data is the payload of a written frame
Step(k, id, ev, ok) == [k |-> k, id |-> id, ev |-> ev, ok |-> ok, data |-> ""]
WriteStep(id, e, ok) == [Step("write", id, e.event, ok) EXCEPT !.data = e.data]

\* Map.delete / Map.set on a function with a varying domain
MapDelete(m, k) == [x \in DOMAIN m \ {k} |-> m[x]]
MapSet(m, k, v) == [x \in DOMAIN m \cup {k} |-> IF x = k THEN v ELSE m[x]]

\* keys of a Map / members of a Set in insertion order; ids are inserted in
\* the order they are generated
InOrder(S) == SelectSeq([n \in 1..MaxIds |-> IdNames[n]], LAMBDA i : i \in S)

\* handleError(code, error, clientId): counts the error; the log line is kept
\* in the trace as the code
handleError(R, code, id) ==
  [R EXCEPT !.stats.totalErrors = @ + 1,
            !.trace = Append(@, Step("error", id, code, FALSE))]

\* JSON.stringify(event.data) returns
Serializable(e) == e.data # "cyclic"

\* controller.enqueue / controller.close do not throw
CanCloseOrEnqueue(R, id) == R.streamOpen[id]

\* sendToClient that marks the client disconnected when the write fails
sendToClient_MarksOnFailure(R, id, e) ==
  IF id \notin DOMAIN R.clients \/ ~R.clients[id].isConnected
  THEN [R |-> R, ok |-> FALSE]
  ELSE IF Serializable(e) /\ CanCloseOrEnqueue(R, id)
       THEN [R |-> [R EXCEPT !.stats.totalEventsSent = @ + 1,
                             !.trace = Append(@, WriteStep(id, e, TRUE))],
             ok |-> TRUE]
       ELSE [R |-> handleError([R EXCEPT
                        !.clients[id].isConnected = FALSE,
                        !.trace = Append(@, WriteStep(id, e, FALSE))],
                        "SEND_TO_CLIENT_ERROR", id),
             ok |-> FALSE]

\* sendToClient that marks a registered client connected again before the
\* write
sendToClient_Reconnects(R, id, e) ==
  IF id \notin DOMAIN R.clients
  THEN [R |-> R, ok |-> FALSE]
  ELSE LET R0 == [R EXCEPT !.clients[id].isConnected = TRUE]
       IN IF Serializable(e) /\ CanCloseOrEnqueue(R0, id)
          THEN [R |-> [R0 EXCEPT !.stats.totalEventsSent = @ + 1,
                                 !.trace = Append(@, WriteStep(id, e, TRUE))],
                ok |-> TRUE]
          ELSE [R |-> handleError([R0 EXCEPT
                           !.trace = Append(@, WriteStep(id, e, FALSE))],
                           "SEND_TO_CLIENT_ERROR", id),
                ok |-> FALSE]

\* sendToClient that tests the presence of the client only, not isConnected
sendToClient_IgnoresFlag(R, id, e) ==
  IF id \notin DOMAIN R.clients
  THEN [R |-> R, ok |-> FALSE]
  ELSE IF Serializable(e) /\ CanCloseOrEnqueue(R, id)
       THEN [R |-> [R EXCEPT !.stats.totalEventsSent = @ + 1,
                             !.trace = Append(@, WriteStep(id, e, TRUE))],
             ok |-> TRUE]
       ELSE [R |-> handleError([R EXCEPT
                        !.trace = Append(@, WriteStep(id, e, FALSE))],
                        "SEND_TO_CLIENT_ERROR", id),
             ok |-> FALSE]

\* sendToClient(clientId, event)
sendToClient(R, id, e) ==
  IF id \notin DOMAIN R.clients \/ ~R.clients[id].isConnected
  THEN [R |-> R, ok |-> FALSE]
  ELSE IF Serializable(e) /\ CanCloseOrEnqueue(R, id)
       THEN [R |-> [R EXCEPT !.stats.totalEventsSent = @ + 1,
                             !.trace = Append(@, WriteStep(id, e, TRUE))],
             ok |-> TRUE]
       ELSE [R |-> handleError([R EXCEPT
                        !.trace = Append(@, WriteStep(id, e, FALSE))],
                        "SEND_TO_CLIENT_ERROR", id),
             ok |-> FALSE]

\* IndexRemove that leaves the key with an empty set behind
IndexRemove_KeepsKey(index, key, id) ==
  IF Truthy(key) /\ key \in DOMAIN index
  THEN [index EXCEPT ![key] = @ \ {id}]
  ELSE index

\* removal of clientId from one secondary index (userConnections or
\* sessionConnections) under key
IndexRemove(index, key, id) ==
  IF Truthy(key) /\ key \in DOMAIN index
  THEN IF index[key] \ {id} = {}
       THEN MapDelete(index, key)
       ELSE [index EXCEPT ![key] = @ \ {id}]
  ELSE index

\* disconnectClient without the catch block: a failing close is not handled
disconnectClient_NoCatch(R, id) ==
  IF id \notin DOMAIN R.clients
  THEN [R |-> R, ok |-> FALSE]
  ELSE LET client == R.clients[id]
           R1 == [R EXCEPT !.clients[id].isConnected = FALSE]
       IN IF ~CanCloseOrEnqueue(R1, id)
          THEN [R |-> [R1 EXCEPT
                        !.trace = Append(@, Step("close", id, "", FALSE))],
                ok |-> FALSE]
          ELSE [R |-> [R1 EXCEPT
                        !.streamOpen[id] = FALSE,
                        !.clients = MapDelete(@, id),
                        !.userConnections = IndexRemove(@, client.userId, id),
                        !.sessionConnections = IndexRemove(@, client.sessionId, id),
                        !.trace = Append(Append(@, Step("close", id, "", TRUE)),
                                         Step("remove", id, "", TRUE))],
                ok |-> TRUE]

\* disconnectClient that takes the removed client off totalConnections
disconnectClient_Decrements(R, id) ==
  IF id \notin DOMAIN R.clients
  THEN [R |-> R, ok |-> FALSE]
  ELSE LET client == R.clients[id]
           R1 == [R EXCEPT !.clients[id].isConnected = FALSE]
       IN IF ~CanCloseOrEnqueue(R1, id)
          THEN [R |-> handleError([R1 EXCEPT
                        !.trace = Append(@, Step("close", id, "", FALSE))],
                        "DISCONNECT_ERROR", id),
                ok |-> FALSE]
          ELSE [R |-> [R1 EXCEPT
                        !.streamOpen[id] = FALSE,
                        !.clients = MapDelete(@, id),
                        !.stats.totalConnections = @ - 1,
                        !.userConnections = IndexRemove(@, client.userId, id),
                        !.sessionConnections = IndexRemove(@, client.sessionId, id),
                        !.trace = Append(Append(@, Step("close", id, "", TRUE)),
                                         Step("remove", id, "", TRUE))],
                ok |-> TRUE]

\* disconnectClient(clientId)
disconnectClient(R, id) ==
  IF id \notin DOMAIN R.clients
  THEN [R |-> R, ok |-> FALSE]
  ELSE LET client == R.clients[id]
           R1 == [R EXCEPT !.clients[id].isConnected = FALSE]
       IN IF ~CanCloseOrEnqueue(R1, id)
          THEN \* controller.close() throws: the catch block counts the error
               [R |-> handleError([R1 EXCEPT
                        !.trace = Append(@, Step("close", id, "", FALSE))],
                        "DISCONNECT_ERROR", id),
                ok |-> FALSE]
          ELSE [R |-> [R1 EXCEPT
                        !.streamOpen[id] = FALSE,
                        !.clients = MapDelete(@, id),
                        !.userConnections = IndexRemove(@, client.userId, id),
                        !.sessionConnections = IndexRemove(@, client.sessionId, id),
                        !.trace = Append(Append(@, Step("close", id, "", TRUE)),
                                         Step("remove", id, "", TRUE))],
                ok |-> TRUE]

\* disconnectedClients.forEach(clientId => this.disconnectClient(clientId))
RECURSIVE disconnectAll(_, _)
disconnectAll(R, ids) ==
  IF ids = << >> THEN R
  ELSE disconnectAll(disconnectClient(R, Head(ids)).R, Tail(ids))

\* sendLoop that disconnects a client as soon as the send to it fails
RECURSIVE sendLoop_DisconnectsInLoop(_, _, _)
sendLoop_DisconnectsInLoop(acc, ids, e) ==
  IF ids = << >> THEN acc
  ELSE LET r == sendToClient(acc.R, Head(ids), e)
       IN sendLoop_DisconnectsInLoop(
                   [R |-> IF r.ok THEN r.R ELSE disconnectClient(r.R, Head(ids)).R,
                    sentCount |-> acc.sentCount + (IF r.ok THEN 1 ELSE 0),
                    disconnectedClients |-> acc.disconnectedClients],
                   Tail(ids), e)

\* sendLoop with sentCount incremented whatever sendToClient returns
RECURSIVE sendLoop_CountsAll(_, _, _)
sendLoop_CountsAll(acc, ids, e) ==
  IF ids = << >> THEN acc
  ELSE LET r == sendToClient(acc.R, Head(ids), e)
       IN sendLoop_CountsAll([R |-> r.R,
                    sentCount |-> acc.sentCount + 1,
                    disconnectedClients |->
                       IF r.ok THEN acc.disconnectedClients
                       ELSE Append(acc.disconnectedClients, Head(ids))],
                   Tail(ids), e)

\* the loop of broadcast / sendToUser / sendToSession over the ids: acc is
\* [R, sentCount, disconnectedClients]
RECURSIVE sendLoop(_, _, _)
sendLoop(acc, ids, e) ==
  IF ids = << >> THEN acc
  ELSE LET r == sendToClient(acc.R, Head(ids), e)
       IN sendLoop([R |-> r.R,
                    sentCount |-> acc.sentCount + (IF r.ok THEN 1 ELSE 0),
                    disconnectedClients |->
                       IF r.ok THEN acc.disconnectedClients
                       ELSE Append(acc.disconnectedClients, Head(ids))],
                   Tail(ids), e)

\* the loop followed by the clean-up of the clients whose send failed
sendAndCleanUp(R, ids, e) ==
  LET acc == sendLoop([R |-> R, sentCount |-> 0, disconnectedClients |-> << >>],
                      ids, e)
  IN [R |-> disconnectAll(acc.R, acc.disconnectedClients), count |-> acc.sentCount]

\* broadcast(event): only the clients with isConnected are sent to
broadcast(R, e) ==
  sendAndCleanUp(R,
    InOrder({id \in DOMAIN R.clients : R.clients[id].isConnected}), e)

\* sendToUser that does not narrow the targets to the user's clients
sendToUser_AllClients(R, userId, e) ==
  IF userId \notin DOMAIN R.userConnections
  THEN [R |-> R, count |-> 0]
  ELSE sendAndCleanUp(R, InOrder(DOMAIN R.clients), e)

\* sendToUser(userId, event)
sendToUser(R, userId, e) ==
  IF userId \notin DOMAIN R.userConnections
  THEN [R |-> R, count |-> 0]
  ELSE sendAndCleanUp(R, InOrder(R.userConnections[userId]), e)

\* sendToSession that looks the session id up in the user index
sendToSession_UserIndex(R, sessionId, e) ==
  IF sessionId \notin DOMAIN R.userConnections
  THEN [R |-> R, count |-> 0]
  ELSE sendAndCleanUp(R, InOrder(R.userConnections[sessionId]), e)

\* sendToSession(sessionId, event)
sendToSession(R, sessionId, e) ==
  IF sessionId \notin DOMAIN R.sessionConnections
  THEN [R |-> R, count |-> 0]
  ELSE sendAndCleanUp(R, InOrder(R.sessionConnections[sessionId]), e)

\* sendMessage without the targetId checks: a user, session or client target
\* without targetId falls through to the default case
sendMessage_NoCheck(R, m) ==
  IF m.target \in {"user", "session", "client"} /\ ~Truthy(m.targetId)
  THEN broadcast(R, m.event)
  ELSE CASE m.target = "user" -> sendToUser(R, m.targetId, m.event)
         [] m.target = "session" -> sendToSession(R, m.targetId, m.event)
         [] m.target = "client" ->
              LET r == sendToClient(R, m.targetId, m.event)
              IN [R |-> r.R, count |-> IF r.ok THEN 1 ELSE 0]
         [] OTHER -> broadcast(R, m.event)

\* sendMessage that reports a target it does not know as an error instead of
\* falling back to a broadcast
sendMessage_UnknownIsError(R, m) ==
  IF m.target \in {"user", "session", "client"} /\ ~Truthy(m.targetId)
  THEN [R |-> handleError(R, "MISSING_TARGET_ID", Undefined), count |-> 0]
  ELSE CASE m.target = "user" -> sendToUser(R, m.targetId, m.event)
         [] m.target = "session" -> sendToSession(R, m.targetId, m.event)
         [] m.target = "client" ->
              LET r == sendToClient(R, m.targetId, m.event)
              IN [R |-> r.R, count |-> IF r.ok THEN 1 ELSE 0]
         [] m.target = "all" -> broadcast(R, m.event)
         [] OTHER -> [R |-> handleError(R, "UNKNOWN_TARGET", Undefined), count |-> 0]

\* sendMessage(message)
sendMessage(R, m) ==
  IF m.target \in {"user", "session", "client"} /\ ~Truthy(m.targetId)
  THEN [R |-> handleError(R, "MISSING_TARGET_ID", Undefined), count |-> 0]
  ELSE CASE m.target = "user" -> sendToUser(R, m.targetId, m.event)
         [] m.target = "session" -> sendToSession(R, m.targetId, m.event)
         [] m.target = "client" ->
              LET r == sendToClient(R, m.targetId, m.event)
              IN [R |-> r.R, count |-> IF r.ok THEN 1 ELSE 0]
         [] OTHER -> broadcast(R, m.event)

\* the timer callback of startHeartbeat, run at time t
RECURSIVE sweepLoop(_, _, _)
sweepLoop(acc, ids, t) ==
  IF ids = << >> THEN acc
  ELSE LET id == Head(ids)
       IN IF t - acc.R.clients[id].lastPing > acc.R.config.connectionTimeout
          THEN sweepLoop([acc EXCEPT !.disconnectedClients = Append(@, id)],
                         Tail(ids), t)
          ELSE \* sendToClient catches its own errors and its result is not
               \* looked at, so the catch block of the sweep is never entered
               sweepLoop([acc EXCEPT !.R = sendToClient(@, id, HeartbeatEvent).R],
                         Tail(ids), t)

heartbeat(R, t) ==
  LET acc == sweepLoop([R |-> R, disconnectedClients |-> << >>],
                       InOrder(DOMAIN R.clients), t)
  IN disconnectAll(acc.R, acc.disconnectedClients)

\* destroy(): the loop over this.clients.keys()
destroy(R) == disconnectAll(R, InOrder(DOMAIN R.clients))

\* the capacity test with > for >=
AtCapacity_OffByOne(R) == Cardinality(DOMAIN R.clients) > R.config.maxConnections

\* connectClient: this.clients.size >= this.config.maxConnections
AtCapacity(R) == Cardinality(DOMAIN R.clients) >= R.config.maxConnections

\* IndexAdd that creates the set of a new key and forgets to add to the set
\* of a key that is already there
IndexAdd_NewKeyOnly(index, key, id) ==
  IF Truthy(key) /\ key \notin DOMAIN index
  THEN MapSet(index, key, {id})
  ELSE index

\* insertion of clientId into one secondary index under key
IndexAdd(index, key, id) ==
  IF Truthy(key)
  THEN MapSet(index, key, (IF key \in DOMAIN index THEN index[key] ELSE {}) \cup {id})
  ELSE index

\* the start callback enqueueing the `connected` frame itself, without going
\* through sendToClient and its counter
register_GreetingUncounted(R, n, userId, sessionId, t) ==
  LET id == generateClientId(n)
      client == [userId |-> userId, sessionId |-> sessionId,
                 lastPing |-> t, isConnected |-> TRUE]
  IN [R EXCEPT
        !.streamOpen = MapSet(@, id, TRUE),
        !.clients = MapSet(@, id, client),
        !.stats.totalConnections = @ + 1,
        !.userConnections = IndexAdd(@, userId, id),
        !.sessionConnections = IndexAdd(@, sessionId, id),
        !.trace = Append(Append(@, Step("insert", id, "", TRUE)),
                         WriteStep(id, ConnectedEvent(id), TRUE))]

\* the start callback of the stream in connectClient(userId, sessionId),
\* generating the n-th id at time t.  It is taken to run with the `stream`
\* binding readable (a build that lowers const to var); controller.signal is
\* not a property of a ReadableStreamDefaultController, so no abort listener
\* is registered.
register(R, n, userId, sessionId, t) ==
  LET id == generateClientId(n)
      client == [userId |-> userId, sessionId |-> sessionId,
                 lastPing |-> t, isConnected |-> TRUE]
      R1 == [R EXCEPT
               !.streamOpen = MapSet(@, id, TRUE),
               !.clients = MapSet(@, id, client),
               !.stats.totalConnections = @ + 1,
               !.userConnections = IndexAdd(@, userId, id),
               !.sessionConnections = IndexAdd(@, sessionId, id),
               !.trace = Append(@, Step("insert", id, "", TRUE))]
  IN sendToClient(R1, id, ConnectedEvent(id)).R

\* connectClient that counts the connection before the capacity test
connectClient_CountsFirst(R, n, userId, sessionId, t) ==
  IF AtCapacity(R)
  THEN [R |-> [R EXCEPT !.stats.totalConnections = @ + 1], threw |-> TRUE]
  ELSE [R |-> register(R, n, userId, sessionId, t), threw |-> FALSE]

\* connectClient(userId, sessionId)
connectClient(R, n, userId, sessionId, t) ==
  IF AtCapacity(R)
  THEN [R |-> R, threw |-> TRUE]
  ELSE [R |-> register(R, n, userId, sessionId, t), threw |-> FALSE]

\* getStats().activeConnections
activeConnections == Cardinality(DOMAIN clients)

\* ------------------------------------------------- formatSSEMessage
\* an optional field of an event is << >> when absent and <<v>> when present
Absent == << >>

\* events handed to formatSSEMessage (data names a serializable payload)
FormatInputs ==
  [id : {Absent, <<"">>, <<"42">>},
   event : {Absent, <<"">>, <<"update">>},
   retry : {Absent, <<0>>, <<3000>>},
   data : {"null", "object", "string"}]

NoEvent == [id |-> Absent, event |-> Absent, retry |-> Absent, data |-> "null"]

\* if (event.id), if (event.event): undefined and "" are falsy
TruthyString(o) == o # Absent /\ o[1] # ""
\* if (event.retry): undefined and 0 are falsy
TruthyNumber(o) == o # Absent /\ o[1] # 0

\* `${event.retry}`: the decimal digits of the number
NumberToString(n) == CASE n = 0 -> "0" [] n = 3000 -> "3000"

\* JSON.stringify(event.data) for null, {a: 1} and "x"
JSONstringify(d) ==
  CASE d = "null" -> "null"
    [] d = "object" -> "{\"a\":1}"
    [] d = "string" -> "\"x\""

\* formatSSEMessage(event): the message as the sequence of the pieces that
\* are concatenated
formatSSEMessage(e) ==
  (IF TruthyString(e.id) THEN <<"id: ", e.id[1], "\n">> ELSE << >>)
    \o (IF TruthyString(e.event) THEN <<"event: ", e.event[1], "\n">> ELSE << >>)
    \o (IF TruthyNumber(e.retry) THEN <<"retry: ", NumberToString(e.retry[1]), "\n">> ELSE << >>)
    \o <<"data: ", JSONstringify(e.data), "\n", "\n">>

FormatIdle == fmtEvent = NoEvent /\ sseMessage = << >>

\* --------------------------------------------------------- useSSE
\* the option maxReconnectAttempts (default 5)
maxReconnectAttempts == 2

\* the refs and the state of one hook as a value
CurHook ==
  [ isConnected |-> isConnected, isConnecting |-> isConnecting,
    reconnectAttempts |-> reconnectAttempts, shouldReconnect |-> shouldReconnect,
    eventSource |-> eventSource, orphans |-> orphans, timerRef |-> timerRef,
    orphanTimers |-> orphanTimers, scheduled |-> scheduled ]

\* the hook after its first render: nothing created yet
HookInit ==
  /\ isConnected = FALSE
  /\ isConnecting = FALSE
  /\ reconnectAttempts = 0
  /\ shouldReconnect = TRUE
  /\ eventSource = "null"
  /\ orphans = [connecting |-> 0, open |-> 0]
  /\ timerRef = FALSE
  /\ orphanTimers = 0
  /\ scheduled = 0

\* number of EventSources of the hook that have not been closed
Unclosed(H) ==
  H.orphans.connecting + H.orphans.open
    + (IF H.eventSource \in {"connecting", "open"} THEN 1 ELSE 0)

\* connect() past its guard: a new EventSource is created and stored in
\* eventSourceRef; the one the ref referred to is not closed
openSource(H) ==
  [H EXCEPT !.isConnecting = TRUE,
            !.shouldReconnect = TRUE,
            !.eventSource = "connecting",
            !.orphans = IF H.eventSource \in {"connecting", "open"}
                        THEN [@ EXCEPT ![H.eventSource] = @ + 1]
                        ELSE @]

\* connect() called by the user or by the effect, with the state of the
\* current render in its closure
connect(H) ==
  IF H.isConnecting \/ H.isConnected THEN H ELSE openSource(H)

\* eventSource.onopen of the EventSource src ("ref": the one eventSourceRef
\* refers to, "orphan": another unclosed one)
onopen(H, src) ==
  [H EXCEPT !.isConnected = TRUE,
            !.isConnecting = FALSE,
            !.reconnectAttempts = 0,
            !.scheduled = 0,
            !.eventSource = IF src = "ref" THEN "open" ELSE @,
            !.orphans = IF src = "orphan"
                        THEN [@ EXCEPT !.connecting = @ - 1, !.open = @ + 1]
                        ELSE @]

\* the EventSource src, in state from, after an error event: closed when the
\* failure is fatal, connecting again otherwise
afterError(H, src, from, fatal) ==
  [H EXCEPT !.eventSource = IF src = "ref"
                            THEN (IF fatal THEN "closed" ELSE "connecting")
                            ELSE @,
            !.orphans = IF src = "orphan"
                        THEN LET o == [@ EXCEPT ![from] = @ - 1]
                             IN IF fatal THEN o ELSE [o EXCEPT !.connecting = @ + 1]
                        ELSE @]

\* onerror with <= for < in the test of the attempts
onerror_Inclusive(H, src, from, fatal) ==
  LET H1 == [afterError(H, src, from, fatal) EXCEPT
               !.isConnected = FALSE, !.isConnecting = FALSE]
  IN IF H1.shouldReconnect /\ H1.reconnectAttempts <= maxReconnectAttempts
     THEN [H1 EXCEPT !.reconnectAttempts = @ + 1,
                     !.scheduled = @ + 1,
                     !.orphanTimers = IF H1.timerRef THEN @ + 1 ELSE @,
                     !.timerRef = TRUE]
     ELSE H1

\* eventSource.onerror of the EventSource src: a reconnection is scheduled
\* with setTimeout and stored in reconnectTimeoutRef, over the timer the ref
\* held
onerror(H, src, from, fatal) ==
  LET H1 == [afterError(H, src, from, fatal) EXCEPT
               !.isConnected = FALSE, !.isConnecting = FALSE]
  IN IF H1.shouldReconnect /\ H1.reconnectAttempts < maxReconnectAttempts
     THEN [H1 EXCEPT !.reconnectAttempts = @ + 1,
                     !.scheduled = @ + 1,
                     !.orphanTimers = IF H1.timerRef THEN @ + 1 ELSE @,
                     !.timerRef = TRUE]
     ELSE H1

\* the callback of a reconnection timer: connect() of the call that created
\* the failing EventSource, in whose closure isConnecting and isConnected are
\* false, so its guard always passes
onReconnectTimeout(H, which) ==
  openSource([H EXCEPT !.timerRef = IF which = "ref" THEN FALSE ELSE @,
                       !.orphanTimers = IF which = "orphan" THEN @ - 1 ELSE @])

\* disconnect(): clears the timer and closes the EventSource the refs hold
disconnect(H) ==
  [H EXCEPT !.shouldReconnect = FALSE,
            !.isConnecting = FALSE,
            !.isConnected = FALSE,
            !.timerRef = FALSE,
            !.eventSource = "null"]

\* src is an unclosed EventSource of the hook in state st
SourceIn(H, src, st) ==
  IF src = "ref" THEN H.eventSource = st ELSE H.orphans[st] > 0

\* ------------------------------------------------- the service module
\* configurations passed to initializeSSE
ServiceConfigs == {KeepAliveConfig, [KeepAliveConfig EXCEPT !.connectionTimeout = 0]}

CurService == [sseManager |-> sseManager, timers |-> timers]

\* the module after it is loaded: let sseManager = null
ServiceIdle == sseManager = FALSE /\ timers = 0

\* initializeSSE that constructs a manager whether or not one exists
initializeSSE_Always(S) ==
  [S |-> [sseManager |-> TRUE, timers |-> S.timers + 1], created |-> TRUE]

\* initializeSSE(config): the existing manager is returned when there is one;
\* otherwise a manager is constructed, and its constructor starts a heartbeat
\* timer
initializeSSE(S) ==
  IF S.sseManager
  THEN [S |-> S, created |-> FALSE]
  ELSE [S |-> [sseManager |-> TRUE, timers |-> S.timers + 1], created |-> TRUE]

\* getSSEManager(), the first statement of every service operation
getSSEManager(S) == [threw |-> ~S.sseManager]

\* destroySSE(): destroy() of the manager clears its timer when it runs
destroySSE(S, timerRuns) ==
  IF S.sseManager
  THEN [sseManager |-> FALSE,
        timers |-> IF timerRuns THEN S.timers - 1 ELSE S.timers]
  ELSE S

\* ------------------------------------------------------------ actions
Within(R) ==
  /\ R.stats.totalEventsSent <= MaxEventsSent
  /\ R.stats.totalErrors <= MaxErrors

Commit(R) ==
  /\ Within(R)
  /\ clients' = R.clients
  /\ userConnections' = R.userConnections
  /\ sessionConnections' = R.sessionConnections
  /\ stats' = R.stats
  /\ streamOpen' = R.streamOpen

\* the steps of kind k in a trace
StepsOf(trace, k) == {trace[i] : i \in {j \in DOMAIN trace : trace[j].k = k}}

\* the state the constructor leaves, for the configuration c
ManagerInit(c) ==
  /\ config = c
  /\ clients = << >>
  /\ userConnections = << >>
  /\ sessionConnections = << >>
  /\ heartbeatTimer = TRUE
  /\ stats = [totalConnections |-> 0, totalEventsSent |-> 0, totalErrors |-> 0]
  /\ streamOpen = << >>
  /\ nextId = 1
  /\ now = 0
  /\ lastBeat = 0

Init == ManagerInit(SmallConfig) /\ HookInit /\ FormatIdle /\ ServiceIdle

Connect ==
  \E p \in Profiles :
    /\ AtCapacity(Cur) \/ nextId <= MaxIds
    /\ LET r == connectClient(Cur, nextId, p[1], p[2], now)
       IN /\ Commit(r.R)
          /\ nextId' = IF r.threw THEN nextId ELSE nextId + 1
    /\ UNCHANGED <<outsideManager, config, heartbeatTimer, now, lastBeat>>

SendToClient ==
  \E id \in AllIds, e \in Events :
    /\ Commit(sendToClient(Cur, id, e).R)
    /\ UNCHANGED <<outsideManager, config, heartbeatTimer, nextId, now, lastBeat>>

Broadcast ==
  \E e \in Events :
    /\ Commit(broadcast(Cur, e).R)
    /\ UNCHANGED <<outsideManager, config, heartbeatTimer, nextId, now, lastBeat>>

SendToUser ==
  \E u \in {"u1", "u2"}, e \in Events :
    /\ Commit(sendToUser(Cur, u, e).R)
    /\ UNCHANGED <<outsideManager, config, heartbeatTimer, nextId, now, lastBeat>>

SendToSession ==
  \E s \in {"s1", "s2"}, e \in Events :
    /\ Commit(sendToSession(Cur, s, e).R)
    /\ UNCHANGED <<outsideManager, config, heartbeatTimer, nextId, now, lastBeat>>

SendMessage ==
  \E a \in Addresses, e \in Events :
    /\ Commit(sendMessage(Cur, [event |-> e, target |-> a[1], targetId |-> a[2]]).R)
    /\ UNCHANGED <<outsideManager, config, heartbeatTimer, nextId, now, lastBeat>>

DisconnectClient ==
  \E id \in AllIds :
    /\ Commit(disconnectClient(Cur, id).R)
    /\ UNCHANGED <<outsideManager, config, heartbeatTimer, nextId, now, lastBeat>>

\* the setInterval callback: not before heartbeatInterval has passed
Heartbeat ==
  /\ heartbeatTimer
  /\ now - lastBeat >= config.heartbeatInterval
  /\ Commit(heartbeat(Cur, now))
  /\ lastBeat' = now
  /\ UNCHANGED <<outsideManager, config, heartbeatTimer, nextId, now>>

Destroy ==
  /\ Commit(destroy(Cur))
  /\ heartbeatTimer' = FALSE
  /\ UNCHANGED <<outsideManager, config, nextId, now, lastBeat>>

\* the consumer of a response body cancels it (the peer went away): the
\* stream is closed without the manager being told
StreamCancel ==
  \E id \in DOMAIN clients :
    /\ streamOpen[id]
    /\ streamOpen' = [streamOpen EXCEPT ![id] = FALSE]
    /\ UNCHANGED <<outsideManager, config, clients, userConnections, sessionConnections,
                   heartbeatTimer, stats, nextId, now, lastBeat>>

\* time passes; the clock is followed for MaxTime units beyond the
\* configured connectionTimeout
Tick ==
  /\ now < MaxTime + config.connectionTimeout
  /\ now' = now + 1
  /\ UNCHANGED <<outsideManager, config, clients, userConnections, sessionConnections,
                 heartbeatTimer, stats, streamOpen, nextId, lastBeat>>

Next ==
  \/ Connect
  \/ SendToClient
  \/ Broadcast
  \/ SendToUser
  \/ SendToSession
  \/ SendMessage
  \/ DisconnectClient
  \/ Heartbeat
  \/ Destroy
  \/ StreamCancel
  \/ Tick

Spec == Init /\ [][Next]_vars

\* a manager constructed with heartbeatInterval < connectionTimeout
InitKeepAlive ==
  ManagerInit(KeepAliveConfig) /\ HookInit /\ FormatIdle /\ ServiceIdle

SpecKeepAlive == InitKeepAlive /\ [][Next]_vars

\* ------------------------------------- actions of the formatter
PickEvent ==
  /\ fmtEvent' \in FormatInputs
  /\ sseMessage' = << >>
  /\ UNCHANGED <<managerVars, hookVars, serviceVars>>

FormatMessage ==
  /\ sseMessage = << >>
  /\ sseMessage' = formatSSEMessage(fmtEvent)
  /\ UNCHANGED <<managerVars, hookVars, serviceVars, fmtEvent>>

NextFormat == PickEvent \/ FormatMessage

InitFormat ==
  /\ ManagerInit(SmallConfig)
  /\ HookInit
  /\ ServiceIdle
  /\ fmtEvent \in FormatInputs
  /\ sseMessage = << >>

SpecFormat == InitFormat /\ [][NextFormat]_vars

\* ------------------------------------------ actions of the hook
WithinHook(H) ==
  /\ Unclosed(H) <= MaxSources
  /\ H.orphanTimers < MaxSources
  /\ H.scheduled <= maxReconnectAttempts + 1

CommitHook(H) ==
  /\ WithinHook(H)
  /\ isConnected' = H.isConnected
  /\ isConnecting' = H.isConnecting
  /\ reconnectAttempts' = H.reconnectAttempts
  /\ shouldReconnect' = H.shouldReconnect
  /\ eventSource' = H.eventSource
  /\ orphans' = H.orphans
  /\ timerRef' = H.timerRef
  /\ orphanTimers' = H.orphanTimers
  /\ scheduled' = H.scheduled
  /\ UNCHANGED <<managerVars, formatVars, serviceVars>>

\* connect() and disconnect() are called by the user of the hook and by its
\* effect (connect on mount with autoConnect, disconnect in the clean-up)
HookConnect == CommitHook(connect(CurHook))

HookDisconnect == CommitHook(disconnect(CurHook))

EsOpen ==
  \E src \in {"ref", "orphan"} :
    /\ SourceIn(CurHook, src, "connecting")
    /\ CommitHook(onopen(CurHook, src))

EsError ==
  \E src \in {"ref", "orphan"}, from \in {"connecting", "open"}, fatal \in BOOLEAN :
    /\ SourceIn(CurHook, src, from)
    /\ CommitHook(onerror(CurHook, src, from, fatal))

ReconnectTimeout ==
  \E which \in {"ref", "orphan"} :
    /\ IF which = "ref" THEN timerRef ELSE orphanTimers > 0
    /\ CommitHook(onReconnectTimeout(CurHook, which))

NextHook ==
  \/ HookConnect
  \/ HookDisconnect
  \/ EsOpen
  \/ EsError
  \/ ReconnectTimeout

SpecHook == Init /\ [][NextHook]_vars

\* --------------------------------------------------- the send route
\* request bodies {event, data, target, targetId} of POST /api/sse/send, with
\* event names other than notification, update and system (whose branches
\* wrap the data and broadcast as well)
Bodies ==
  { [event |-> "msg", data |-> "obj", target |-> a[1], targetId |-> a[2]] :
      a \in { <<Undefined, Undefined>>, <<"user", "u1">>, <<"user", Undefined>>,
              <<"session", "">>, <<"client", Undefined>>, <<"client", "c1">> } }
    \cup { [event |-> "broadcast", data |-> "obj", target |-> Undefined,
            targetId |-> Undefined] }

\* POST(request): the body goes to sendMessage when both target and targetId
\* are truthy, and to broadcastEvent in every other branch
POST(R, body) ==
  LET e == [event |-> body.event, data |-> body.data]
      r == IF Truthy(body.target) /\ Truthy(body.targetId)
           THEN sendMessage(R, [event |-> e, target |-> body.target,
                                targetId |-> body.targetId])
           ELSE broadcast(R, e)
  IN [R |-> r.R, response |-> [success |-> TRUE, sentCount |-> r.count]]

Post ==
  \E body \in Bodies :
    /\ Commit(POST(Cur, body).R)
    /\ UNCHANGED <<outsideManager, config, heartbeatTimer, nextId, now, lastBeat>>

NextApi == Next \/ Post

\* the manager behind the send route
SpecApi == InitKeepAlive /\ [][NextApi]_vars

\* ------------------------------------- actions of the service module
\* new SSEManager(c): empty maps, zero counters, the heartbeat timer started;
\* ids and the clock go on
NewManager(c) ==
  /\ config' = c
  /\ clients' = << >>
  /\ userConnections' = << >>
  /\ sessionConnections' = << >>
  /\ heartbeatTimer' = TRUE
  /\ stats' = [totalConnections |-> 0, totalEventsSent |-> 0, totalErrors |-> 0]
  /\ streamOpen' = << >>
  /\ lastBeat' = now
  /\ UNCHANGED <<nextId, now>>

InitializeSSE ==
  \E c \in ServiceConfigs :
    LET r == initializeSSE(CurService)
    IN /\ sseManager' = r.S.sseManager
       /\ timers' = r.S.timers
       /\ IF r.created THEN NewManager(c) ELSE UNCHANGED managerVars
       /\ UNCHANGED <<formatVars, hookVars>>

DestroySSE ==
  LET S == destroySSE(CurService, heartbeatTimer)
  IN /\ sseManager' = S.sseManager
     /\ timers' = S.timers
     /\ IF sseManager
        THEN /\ Commit(destroy(Cur))
             /\ heartbeatTimer' = FALSE
             /\ UNCHANGED <<config, nextId, now, lastBeat>>
        ELSE UNCHANGED managerVars
     /\ UNCHANGED <<formatVars, hookVars>>

\* a service operation: getSSEManager() throws when there is no manager,
\* otherwise the operation of the manager runs
ServiceCall(op) == ~getSSEManager(CurService).threw /\ op

\* connectSSEClient, sendToClient, broadcastEvent, sendToUser, sendToSession,
\* sendMessage and disconnectClient of the service module
SvcConnect == ServiceCall(Connect)
SvcSendToClient == ServiceCall(SendToClient)
SvcBroadcast == ServiceCall(Broadcast)
SvcSendToUser == ServiceCall(SendToUser)
SvcSendToSession == ServiceCall(SendToSession)
SvcSendMessage == ServiceCall(SendMessage)
SvcDisconnectClient == ServiceCall(DisconnectClient)

NextService ==
  \/ InitializeSSE
  \/ DestroySSE
  \/ SvcConnect
  \/ SvcSendToClient
  \/ SvcBroadcast
  \/ SvcSendToUser
  \/ SvcSendToSession
  \/ SvcSendMessage
  \/ SvcDisconnectClient
  \/ Heartbeat
  \/ StreamCancel
  \/ Tick

\* no manager has been constructed: the fields stand for none
InitService ==
  /\ ServiceIdle
  /\ config = KeepAliveConfig
  /\ clients = << >>
  /\ userConnections = << >>
  /\ sessionConnections = << >>
  /\ heartbeatTimer = FALSE
  /\ stats = [totalConnections |-> 0, totalEventsSent |-> 0, totalErrors |-> 0]
  /\ streamOpen = << >>
  /\ nextId = 1
  /\ now = 0
  /\ lastBeat = 0
  /\ HookInit
  /\ FormatIdle

SpecService == InitService /\ [][NextService]_vars

\* ------------------------------------------------------------- claims
\* the positions of the writes to id in a trace
WriteIdx(trace, id) ==
  {i \in DOMAIN trace : trace[i].k = "write" /\ trace[i].id = id}

AllWritesOk(trace) == \A x \in StepsOf(trace, "write") : x.ok

\* exactly one write, of event e, to each id of T and none to another id
WritesExactlyTo(trace, T, e) ==
  \A id \in AllIds :
    IF id \in T
    THEN /\ Cardinality(WriteIdx(trace, id)) = 1
         /\ \A i \in WriteIdx(trace, id) : trace[i].ev = e.event
    ELSE WriteIdx(trace, id) = {}

\* id is referenced by no entry of the index
NotIndexed(index, id) == \A k \in DOMAIN index : id \notin index[k]

Connected == {id \in DOMAIN clients : clients[id].isConnected}

\* C1: the primary map never holds more than maxConnections clients.
C1_CapacityInvariant ==
  Cardinality(DOMAIN clients) <= config.maxConnections

\* the registry is full and has been connected to more often than it has
\* slots: a Connect took the slot of a client that had left
C1_Witness ==
  /\ Cardinality(DOMAIN clients) = config.maxConnections
  /\ stats.totalConnections > config.maxConnections

\* C2: a Connect attempted while the primary map holds maxConnections clients
\* throws and changes neither the maps, nor a client, nor totalConnections,
\* nor totalEventsSent.
C2_ConnectAtCapacityRefused ==
  Cardinality(DOMAIN clients) >= config.maxConnections
    => \A p \in Profiles :
         LET r == connectClient(Cur, nextId, p[1], p[2], now)
         IN /\ r.threw
            /\ r.R.clients = clients
            /\ r.R.userConnections = userConnections
            /\ r.R.sessionConnections = sessionConnections
            /\ r.R.stats.totalConnections = stats.totalConnections
            /\ r.R.stats.totalEventsSent = stats.totalEventsSent

\* a full registry in which a further Connect throws
C2_Witness ==
  /\ Cardinality(DOMAIN clients) = config.maxConnections
  /\ \A p \in Profiles : connectClient(Cur, nextId, p[1], p[2], now).threw

\* C3 (I1): every clientId in the user index or the session index is in the
\* primary map and that client has isConnected.
C3_IndexedClientsAreConnected ==
  /\ \A u \in DOMAIN userConnections : \A id \in userConnections[u] :
        id \in DOMAIN clients /\ clients[id].isConnected
  /\ \A s \in DOMAIN sessionConnections : \A id \in sessionConnections[s] :
        id \in DOMAIN clients /\ clients[id].isConnected

\* C4 (I2): a client of the primary map is in the user index set of key U
\* iff its userId is set (defined and not empty) and equals U, and likewise
\* for the session index.
C4_IndexMembership ==
  \A id \in DOMAIN clients :
    /\ \A U \in {p[1] : p \in Profiles} \cup DOMAIN userConnections :
         (U \in DOMAIN userConnections /\ id \in userConnections[U])
           <=> (Truthy(clients[id].userId) /\ clients[id].userId = U)
    /\ \A S \in {p[2] : p \in Profiles} \cup DOMAIN sessionConnections :
         (S \in DOMAIN sessionConnections /\ id \in sessionConnections[S])
           <=> (Truthy(clients[id].sessionId) /\ clients[id].sessionId = S)

\* the registry holds two clients of one user and of different sessions,
\* the second connected after another client had been removed
C4_Witness ==
  /\ stats.totalConnections > Cardinality(DOMAIN clients)
  /\ \E a, b \in DOMAIN clients :
       /\ a # b
       /\ clients[a].userId = clients[b].userId /\ Truthy(clients[a].userId)
       /\ clients[a].sessionId # clients[b].sessionId

\* C5: when all its writes succeed, SendToUser(U, e) writes exactly one frame
\* for e to every connected client whose userId is U, none to another client,
\* and returns the number of those clients.
C5_SendToUserTargets ==
  \A U \in {"u1", "u2"}, e \in Events :
    LET r == sendToUser(Cur, U, e)
        T == {id \in Connected : clients[id].userId = U}
    IN AllWritesOk(r.R.trace)
         => /\ WritesExactlyTo(r.R.trace, T, e)
            /\ r.count = Cardinality(T)

\* two clients of different users are connected and SendToUser writes to
\* one of them
C5_Witness ==
  /\ Cardinality(Connected) = 2
  /\ \E e \in Events :
       LET r == sendToUser(Cur, "u1", e)
       IN r.count = 1 /\ AllWritesOk(r.R.trace)

\* C6: when all its writes succeed, SendToSession(S, e) writes exactly one
\* frame for e to every connected client whose sessionId is S, none to
\* another client, and returns the number of those clients.
C6_SendToSessionTargets ==
  \A S \in {"s1", "s2"}, e \in Events :
    LET r == sendToSession(Cur, S, e)
        T == {id \in Connected : clients[id].sessionId = S}
    IN AllWritesOk(r.R.trace)
         => /\ WritesExactlyTo(r.R.trace, T, e)
            /\ r.count = Cardinality(T)

\* two clients of different sessions are connected and SendToSession writes
\* to one of them
C6_Witness ==
  /\ Cardinality(Connected) = 2
  /\ \E e \in Events :
       LET r == sendToSession(Cur, "s2", e)
       IN r.count = 1 /\ AllWritesOk(r.R.trace)

\* C7: Broadcast(e) attempts exactly one write of e to every client that is
\* connected when it starts and to no other, and returns the number of writes
\* that succeeded; when all succeed that is the number of connected clients.
C7_BroadcastTargets ==
  \A e \in Events :
    LET r == broadcast(Cur, e)
    IN /\ WritesExactlyTo(r.R.trace, Connected, e)
       /\ r.count = Cardinality({i \in DOMAIN r.R.trace :
                       r.R.trace[i].k = "write" /\ r.R.trace[i].ok})
       /\ AllWritesOk(r.R.trace) => r.count = Cardinality(Connected)

\* two clients are connected and Broadcast reaches one and fails on the other
C7_Witness ==
  /\ Cardinality(Connected) = 2
  /\ \E e \in Events :
       LET r == broadcast(Cur, e)
       IN r.count = 1 /\ ~AllWritesOk(r.R.trace)

\* C8: for a client of the registry, DisconnectClient(id) returns true and
\* leaves id in none of the three maps, and a second DisconnectClient(id)
\* returns false and changes nothing.
C8_DisconnectIdempotent ==
  \A id \in DOMAIN clients :
    LET r1 == disconnectClient(Cur, id)
        r2 == disconnectClient(r1.R, id)
    IN /\ r1.ok
       /\ id \notin DOMAIN r1.R.clients
       /\ NotIndexed(r1.R.userConnections, id)
       /\ NotIndexed(r1.R.sessionConnections, id)
       /\ ~r2.ok
       /\ r2.R = r1.R

\* C9: SendMessage with target user, session or client and no targetId
\* returns 0, adds exactly one to totalErrors, writes no frame and leaves the
\* three maps as they are.
C9_MissingTargetId ==
  \A t \in {"user", "session", "client"}, e \in Events :
    LET r == sendMessage(Cur, [event |-> e, target |-> t, targetId |-> Undefined])
    IN /\ r.count = 0
       /\ r.R.stats.totalErrors = stats.totalErrors + 1
       /\ StepsOf(r.R.trace, "write") = {}
       /\ r.R.clients = clients
       /\ r.R.userConnections = userConnections
       /\ r.R.sessionConnections = sessionConnections

\* a client is connected (a broadcast would reach it) after an error has
\* been counted, and SendMessage without targetId reports MISSING_TARGET_ID
C9_Witness ==
  /\ stats.totalErrors > 0
  /\ \E e \in Events : broadcast(Cur, e).count > 0
  /\ \E e \in Events :
       StepsOf(sendMessage(Cur, [event |-> e, target |-> "user",
                                 targetId |-> Undefined]).R.trace, "error")
         = {Step("error", Undefined, "MISSING_TARGET_ID", FALSE)}

\* C10: a heartbeat sweep removes from the three maps every client whose
\* lastPing is older than connectionTimeout when the sweep starts, and
\* activeConnections goes down by the number of these clients.
C10_HeartbeatEviction ==
  (heartbeatTimer /\ now - lastBeat >= config.heartbeatInterval)
    => LET R == heartbeat(Cur, now)
           stale == {id \in DOMAIN clients :
                       now - clients[id].lastPing > config.connectionTimeout}
       IN /\ \A id \in stale :
               /\ id \notin DOMAIN R.clients
               /\ NotIndexed(R.userConnections, id)
               /\ NotIndexed(R.sessionConnections, id)
          /\ Cardinality(DOMAIN R.clients)
               = Cardinality(DOMAIN clients) - Cardinality(stale)

\* the outcome C11 states for the result r of a batch send started in the
\* current state: the clients whose write failed are gone from the three
\* maps, the others are still registered, and the count is the number of
\* writes that succeeded
BatchOutcome(r) ==
  LET writes == StepsOf(r.R.trace, "write")
      failed == {x.id : x \in {y \in writes : ~y.ok}}
  IN /\ \A id \in failed :
          /\ id \notin DOMAIN r.R.clients
          /\ NotIndexed(r.R.userConnections, id)
          /\ NotIndexed(r.R.sessionConnections, id)
     /\ \A id \in DOMAIN clients \ failed : id \in DOMAIN r.R.clients
     /\ r.count = Cardinality({x.id : x \in {y \in writes : y.ok}})

\* C11: when the write to a client fails during Broadcast, SendToUser or
\* SendToSession, that client is in none of the three maps when the call
\* returns, every other client stays registered, and the count returned is
\* the number of clients whose write succeeded.
C11_BatchSendFailure ==
  \A e \in Events :
    /\ BatchOutcome(broadcast(Cur, e))
    /\ \A U \in {"u1", "u2"} : BatchOutcome(sendToUser(Cur, U, e))
    /\ \A S \in {"s1", "s2"} : BatchOutcome(sendToSession(Cur, S, e))

\* C12: SendToClient(id, e) for an id that is not in the primary map, or
\* whose client has isConnected false, returns false, writes no frame and
\* changes neither the maps nor totalEventsSent nor totalErrors.
C12_SendToAbsentOrDisconnected ==
  \A id \in AllIds, e \in Events :
    (id \notin DOMAIN clients \/ ~clients[id].isConnected)
      => LET r == sendToClient(Cur, id, e)
         IN /\ ~r.ok
            /\ StepsOf(r.R.trace, "write") = {}
            /\ r.R.clients = clients
            /\ r.R.userConnections = userConnections
            /\ r.R.sessionConnections = sessionConnections
            /\ r.R.stats = stats

\* the registry holds a client with isConnected false, another id is not
\* registered, and SendToClient returns false for both
C12_Witness ==
  /\ \E id \in DOMAIN clients :
       ~clients[id].isConnected /\ \A e \in Events : ~sendToClient(Cur, id, e).ok
  /\ \E id \in AllIds \ DOMAIN clients :
       \A e \in Events : ~sendToClient(Cur, id, e).ok

\* C13: every successful write of a frame to a client sets the lastPing of
\* that client to the time of the write.
C13_LastPingRefresh ==
  \A id \in DOMAIN clients, e \in Events \cup {HeartbeatEvent} :
    LET r == sendToClient(Cur, id, e)
    IN r.ok => r.R.clients[id].lastPing = now

\* id is written a heartbeat frame successfully in the trace of a sweep
HeartbeatWritten(trace, id) ==
  \E x \in StepsOf(trace, "write") : x.id = id /\ x.ev = "heartbeat" /\ x.ok

\* C14: with heartbeatInterval < connectionTimeout, a client to which every
\* heartbeat frame is written successfully is not disconnected by the sweep:
\* with the timer firing on time, a client that a sweep writes its heartbeat
\* to is still registered after the sweep one heartbeatInterval later.
C14_KeepAlive ==
  (/\ config.heartbeatInterval < config.connectionTimeout
   /\ heartbeatTimer
   /\ now - lastBeat = config.heartbeatInterval)
    => LET R1 == heartbeat(Cur, now)
           R2 == heartbeat(R1, now + config.heartbeatInterval)
       IN \A id \in DOMAIN clients :
            (HeartbeatWritten(R1.trace, id) /\ R1.streamOpen[id])
              => id \in DOMAIN R2.clients

\* the registry after n further sweeps of the heartbeat timer, one every
\* heartbeatInterval, the first one heartbeatInterval after time t
RECURSIVE SweepsFrom(_, _, _)
SweepsFrom(R, t, n) ==
  IF n = 0 THEN R
  ELSE SweepsFrom(heartbeat(R, t + R.config.heartbeatInterval),
                  t + R.config.heartbeatInterval, n - 1)

\* C15: a client whose output handle has failed (every further write to it
\* and the close of it fail) is removed from the three maps while heartbeat
\* sweeps keep running: one of the next MaxSweeps sweeps, the last of which
\* run after connectionTimeout has passed, leaves it in none of the maps.
C15_DeadClientReclaimed ==
  (heartbeatTimer /\ MaxSweeps * config.heartbeatInterval > config.connectionTimeout)
    => \A id \in DOMAIN clients :
         ~streamOpen[id]
           => \E n \in 1..MaxSweeps :
                LET R == SweepsFrom(Cur, now, n)
                IN /\ id \notin DOMAIN R.clients
                   /\ NotIndexed(R.userConnections, id)
                   /\ NotIndexed(R.sessionConnections, id)

\* C16: across every step totalConnections and totalEventsSent never
\* decrease, and in every state the activeConnections that getStats reports
\* is the size of the primary map.
C16_StatsMonotone ==
  [][/\ stats'.totalConnections >= stats.totalConnections
     /\ stats'.totalEventsSent >= stats.totalEventsSent
     /\ activeConnections' = Cardinality(DOMAIN clients')]_vars

\* clients have come and gone and frames other than the connect-time ones
\* have been written: both counters are ahead of the size of the primary map
C16_Witness ==
  /\ stats.totalConnections > activeConnections
  /\ stats.totalEventsSent > stats.totalConnections
  /\ activeConnections > 0

\* C17: in a fresh registry, after one successful Connect followed by one
\* Broadcast that reaches that single client, GetStats reports
\* totalConnections 1, activeConnections 1 and totalEventsSent 1.
C17_StatsAfterConnectAndBroadcast ==
  (/\ clients = << >>
   /\ stats = [totalConnections |-> 0, totalEventsSent |-> 0, totalErrors |-> 0])
    => \A p \in Profiles, e \in Events :
         LET c == connectClient(Cur, nextId, p[1], p[2], now)
             b == broadcast(c.R, e)
         IN (~c.threw /\ b.count = 1)
              => /\ b.R.stats.totalConnections = 1
                 /\ Cardinality(DOMAIN b.R.clients) = 1
                 /\ b.R.stats.totalEventsSent = 1

\* the writes that succeeded in a trace
OkWrites(trace) ==
  {i \in DOMAIN trace : trace[i].k = "write" /\ trace[i].ok}

C19_DestroyEmptiesRegistry ==
  LET R1 == destroy(Cur)
      R2 == destroy([R1 EXCEPT !.trace = << >>])
  IN /\ R1.clients = << >>
     /\ R1.userConnections = << >>
     /\ R1.sessionConnections = << >>
     /\ R2.clients = R1.clients
     /\ R2.userConnections = R1.userConnections
     /\ R2.sessionConnections = R1.sessionConnections
     /\ R2.stats = R1.stats
     /\ R2.streamOpen = R1.streamOpen

\* no send started in the current state succeeds
NoSendSucceeds ==
  \A e \in Events :
    /\ \A id \in AllIds : ~sendToClient(Cur, id, e).ok
    /\ broadcast(Cur, e).count = 0
    /\ \A U \in {"u1", "u2"} : sendToUser(Cur, U, e).count = 0
    /\ \A S \in {"s1", "s2"} : sendToSession(Cur, S, e).count = 0
    /\ \A a \in Addresses :
         sendMessage(Cur, [event |-> e, target |-> a[1], targetId |-> a[2]]).count = 0

\* C20: once Destroy has been called (the heartbeat timer is cleared by
\* Destroy only and never set again), no state is reached, whatever
\* operations follow, further Connects included, in which SendToClient
\* returns true or Broadcast, SendToUser, SendToSession or SendMessage
\* returns a count greater than 0.
C20_NoSendAfterDestroy ==
  ~heartbeatTimer => NoSendSucceeds

\* C21: for every client created by a successful Connect, the first frame
\* written to its output handle is the `connected` event carrying the
\* client's own id, and the client is in the primary map and in its indexes
\* before that frame is written.
C21_ConnectedFrameFirst ==
  \A p \in Profiles :
    LET c == connectClient(Cur, nextId, p[1], p[2], now)
        id == generateClientId(nextId)
        t == c.R.trace
    IN ~c.threw
         => /\ id \notin DOMAIN streamOpen
            /\ WriteIdx(t, id) # {}
            /\ LET first == CHOOSE i \in WriteIdx(t, id) :
                              \A j \in WriteIdx(t, id) : i <= j
               IN /\ t[first].ev = "connected"
                  /\ t[first].data = id
                  /\ t[first].ok
                  /\ \E j \in 1..(first - 1) : t[j].k = "insert" /\ t[j].id = id
            /\ id \in DOMAIN c.R.clients
            /\ Truthy(p[1]) => id \in c.R.userConnections[p[1]]
            /\ Truthy(p[2]) => id \in c.R.sessionConnections[p[2]]

\* a client with a user and a session is registered next to an earlier one,
\* and the frame written to it by its Connect is counted
C21_Witness ==
  /\ Cardinality(DOMAIN clients) = 2
  /\ stats.totalEventsSent >= 2
  /\ \E id \in DOMAIN clients :
       /\ id = generateClientId(nextId - 1)
       /\ clients[id].isConnected /\ streamOpen[id]
       /\ Truthy(clients[id].userId) /\ Truthy(clients[id].sessionId)
       /\ id \in userConnections[clients[id].userId]

\* the number of times the close of the handle of id is invoked in a trace
CloseCount(trace, id) ==
  Cardinality({i \in DOMAIN trace : trace[i].k = "close" /\ trace[i].id = id})

\* the registries that one tearing-down operation started in R at time t can
\* leave: an explicit disconnectClient, a batch send with its clean-up, a
\* heartbeat sweep (while the timer runs), destroy
Teardowns(R, t) ==
  {disconnectClient(R, id).R : id \in DOMAIN R.clients}
    \cup {broadcast(R, e).R : e \in Events}
    \cup (IF heartbeatTimer THEN {heartbeat(R, t)} ELSE {})
    \cup {destroy(R)}

\* C23: over the lifetime of a client the close of its output handle is
\* invoked exactly once, whatever combination of explicit DisconnectClient,
\* failed-send clean-up, heartbeat eviction and Destroy applies to it: two
\* such operations in a row invoke it at most once, and once for a client
\* they remove.
C23_CloseExactlyOnce ==
  \A R1 \in Teardowns(Cur, now) :
    \A R2 \in Teardowns(R1, now) :
      \A id \in DOMAIN clients :
        /\ CloseCount(R2.trace, id) <= 1
        /\ id \notin DOMAIN R2.clients => CloseCount(R2.trace, id) = 1

\* C24: when the transport signals that the peer has closed the stream of a
\* client, DisconnectClient runs for it: the step in which the stream of a
\* registered client stops being readable leaves the client in none of the
\* three maps.
C24_CloseSignalTeardown ==
  [][\A id \in DOMAIN clients :
       (streamOpen[id] /\ ~streamOpen'[id])
         => /\ id \notin DOMAIN clients'
            /\ NotIndexed(userConnections', id)
            /\ NotIndexed(sessionConnections', id)]_vars

\* the result r of sendMessage has the effect and the count of the result b
\* of a batch send
SameAs(r, b) == r.R = b.R /\ r.count = b.count

Message(e, target, targetId) == [event |-> e, target |-> target, targetId |-> targetId]

\* C25: SendMessage with target `all`, or with an unrecognized or absent
\* target, has the effect and result of Broadcast(event); with target user or
\* session and a targetId those of SendToUser / SendToSession; with target
\* client and a targetId it has the effect of SendToClient and returns 1 if
\* SendToClient returns true and 0 otherwise.
C25_SendMessageDispatch ==
  \A e \in Events :
    /\ LET b == broadcast(Cur, e)
       IN \A t \in {"all", "bogus", Undefined}, tid \in {Undefined, "u1"} :
            SameAs(sendMessage(Cur, Message(e, t, tid)), b)
    /\ \A U \in {"u1", "u2"} :
         SameAs(sendMessage(Cur, Message(e, "user", U)), sendToUser(Cur, U, e))
    /\ \A S \in {"s1", "s2"} :
         SameAs(sendMessage(Cur, Message(e, "session", S)), sendToSession(Cur, S, e))
    /\ \A id \in AllIds :
         LET r == sendMessage(Cur, Message(e, "client", id))
             s == sendToClient(Cur, id, e)
         IN r.R = s.R /\ r.count = (IF s.ok THEN 1 ELSE 0)

\* a client of user u1 and session s1 is connected (after an earlier client
\* has left): the routes of SendMessage give different results
C25_Witness ==
  /\ stats.totalConnections > 1
  /\ \E id \in Connected :
       /\ clients[id].userId = "u1" /\ clients[id].sessionId = "s1"
       /\ \E e \in Events :
            /\ sendMessage(Cur, Message(e, "bogus", "u1")).count = 1
            /\ sendMessage(Cur, Message(e, "user", "u2")).count = 0
            /\ sendMessage(Cur, Message(e, "user", "u1")).count = 1
            /\ sendMessage(Cur, Message(e, "session", "s1")).count = 1
            /\ sendMessage(Cur, Message(e, "client", id)).count = 1
            /\ \E other \in AllIds : sendMessage(Cur, Message(e, "client", other)).count = 0

\* C26: a request to the send route whose target is user, session or client
\* and whose targetId is absent writes no frame to any client.
C26_TargetedRequestNeverFansOut ==
  \A body \in Bodies :
    (body.target \in {"user", "session", "client"} /\ ~Truthy(body.targetId))
      => StepsOf(POST(Cur, body).R.trace, "write") = {}

\* the frame C27 describes for the event e: the id line iff id is present,
\* the event line iff the type is not empty, the retry line iff retry is
\* present, the data line, the blank line
ClaimedFrame(e) ==
  (IF e.id # Absent THEN <<"id: ", e.id[1], "\n">> ELSE << >>)
    \o (IF e.event # Absent /\ e.event[1] # ""
        THEN <<"event: ", e.event[1], "\n">> ELSE << >>)
    \o (IF e.retry # Absent
        THEN <<"retry: ", NumberToString(e.retry[1]), "\n">> ELSE << >>)
    \o <<"data: ", JSONstringify(e.data), "\n", "\n">>

\* C27: for every event the encoded frame is the `id:` line iff id is
\* present, then the `event:` line iff the type is non-empty, then the
\* `retry:` line iff retry is present, then always a `data:` line holding the
\* JSON serialization of the payload, then a blank line, each line ended by
\* one newline, in that order.
C27_FrameFormat ==
  sseMessage # << >> => sseMessage = ClaimedFrame(fmtEvent)

\* C29: between two successful opens (or since the first connect) the hook
\* schedules at most maxReconnectAttempts reconnections after errors, and the
\* attempt counter is 0 after every successful open.
C29_ReconnectBound ==
  /\ scheduled <= maxReconnectAttempts
  /\ \A src \in {"ref", "orphan"} :
       SourceIn(CurHook, src, "connecting")
         => onopen(CurHook, src).reconnectAttempts = 0

\* maxReconnectAttempts reconnections have been scheduled since the last
\* open, a further error of an unclosed EventSource schedules none, and an
\* open would reset the counter
C29_Witness ==
  /\ scheduled = maxReconnectAttempts
  /\ reconnectAttempts = maxReconnectAttempts
  /\ shouldReconnect
  /\ SourceIn(CurHook, "ref", "connecting")
  /\ onerror(CurHook, "ref", "connecting", FALSE).scheduled = scheduled
  /\ onopen(CurHook, "ref").reconnectAttempts = 0

\* C28: every handled error condition increments totalErrors: a Connect
\* refused at capacity, a targeted message without targetId, a failed write
\* to a client, and the eviction of a stale client by a heartbeat sweep.
C28_ErrorAccounting ==
  /\ AtCapacity(Cur)
       => \A p \in Profiles :
            connectClient(Cur, nextId, p[1], p[2], now).R.stats.totalErrors
              > stats.totalErrors
  /\ \A t \in {"user", "session", "client"}, e \in Events :
       sendMessage(Cur, [event |-> e, target |-> t, targetId |-> Undefined])
           .R.stats.totalErrors > stats.totalErrors
  /\ \A id \in DOMAIN clients, e \in Events :
       LET r == sendToClient(Cur, id, e)
       IN WriteStep(id, e, FALSE) \in StepsOf(r.R.trace, "write")
            => r.R.stats.totalErrors > stats.totalErrors
  /\ (heartbeatTimer /\ now - lastBeat >= config.heartbeatInterval
        /\ \E id \in DOMAIN clients :
             now - clients[id].lastPing > config.connectionTimeout)
       => heartbeat(Cur, now).stats.totalErrors > stats.totalErrors

\* C30: a client that has not timed out and whose heartbeat write fails
\* during a sweep has been disconnected when the sweep completes: it is in
\* none of the three maps.
C30_HeartbeatFailureDisconnects ==
  (heartbeatTimer /\ now - lastBeat >= config.heartbeatInterval)
    => LET R == heartbeat(Cur, now)
       IN \A id \in DOMAIN clients :
            (/\ now - clients[id].lastPing <= config.connectionTimeout
             /\ WriteStep(id, HeartbeatEvent, FALSE) \in StepsOf(R.trace, "write"))
              => /\ id \notin DOMAIN R.clients
                 /\ NotIndexed(R.userConnections, id)
                 /\ NotIndexed(R.sessionConnections, id)

\* C31: DisconnectClient on a present client whose output-handle close
\* fails still removes the client from the primary map, the user index and
\* the session index and returns true.
C31_CloseFailureNonFatal ==
  \A id \in DOMAIN clients :
    ~CanCloseOrEnqueue(Cur, id)
      => LET r == disconnectClient(Cur, id)
         IN /\ r.ok
            /\ id \notin DOMAIN r.R.clients
            /\ NotIndexed(r.R.userConnections, id)
            /\ NotIndexed(r.R.sessionConnections, id)

\* the write of the event e to the client id fails in the current state
WriteFails(id, e) ==
  WriteStep(id, e, FALSE) \in StepsOf(sendToClient(Cur, id, e).R.trace, "write")

\* C32: SendToClient whose write fails returns false and leaves the primary
\* map, both indexes and the connected flag of the client unchanged;
\* SendMessage with target client does not disconnect the failing client.
C32_FailedSendKeepsClient ==
  \A id \in DOMAIN clients, e \in Events :
    WriteFails(id, e)
      => LET r == sendToClient(Cur, id, e)
             m == sendMessage(Cur, Message(e, "client", id))
         IN /\ ~r.ok
            /\ r.R.clients = clients
            /\ r.R.userConnections = userConnections
            /\ r.R.sessionConnections = sessionConnections
            /\ m.count = 0
            /\ m.R.clients = clients
            /\ m.R.userConnections = userConnections
            /\ m.R.sessionConnections = sessionConnections
            /\ StepsOf(m.R.trace, "close") = {}

\* a connected, indexed client whose stream was cancelled: the write of a
\* serializable event to it fails
C32_Witness ==
  \E id \in DOMAIN clients, e \in Events :
    /\ Serializable(e)
    /\ clients[id].isConnected
    /\ ~NotIndexed(userConnections, id)
    /\ WriteFails(id, e)
    /\ ~sendToClient(Cur, id, e).ok

\* in the steps of one call, every close and every removal comes after the
\* last write attempt
Deferred(trace) ==
  \A i, j \in DOMAIN trace :
    (trace[i].k \in {"close", "remove"} /\ trace[j].k = "write") => j < i

\* C33: during Broadcast, SendToUser, SendToSession and the heartbeat sweep
\* no client is removed from the primary map or from an index before the
\* iteration over all targets has finished: all removals come after the last
\* send attempt of the call.
C33_DeferredDisconnect ==
  /\ \A e \in Events :
       /\ Deferred(broadcast(Cur, e).R.trace)
       /\ \A u \in DOMAIN userConnections : Deferred(sendToUser(Cur, u, e).R.trace)
       /\ \A s \in DOMAIN sessionConnections :
            Deferred(sendToSession(Cur, s, e).R.trace)
  /\ (heartbeatTimer /\ now - lastBeat >= config.heartbeatInterval)
       => Deferred(heartbeat(Cur, now).trace)

\* a broadcast in which two writes fail and both clients are removed, and a
\* sweep that evicts a stale client and writes the heartbeat to another
C33_Witness ==
  /\ \E e \in Events :
       LET t == broadcast(Cur, e).R.trace
       IN /\ Cardinality(StepsOf(t, "write")) = 2
          /\ Cardinality(StepsOf(t, "remove")) = 2
  /\ heartbeatTimer /\ now - lastBeat >= config.heartbeatInterval
  /\ LET t == heartbeat(Cur, now).trace
     IN StepsOf(t, "write") # {} /\ StepsOf(t, "remove") # {}

\* the ids of the clients created so far whose isConnected is false: the
\* registered ones with the flag false and the removed ones
Disconnected ==
  {id \in {generateClientId(n) : n \in 1..(nextId - 1)} :
     id \notin DOMAIN clients \/ ~clients[id].isConnected}

\* no send operation and no sweep started in the current state attempts a
\* write to the client id
NoWriteTo(id) ==
  /\ \A e \in Events :
       /\ \A c \in DOMAIN clients : WriteIdx(sendToClient(Cur, c, e).R.trace, id) = {}
       /\ WriteIdx(broadcast(Cur, e).R.trace, id) = {}
       /\ \A u \in DOMAIN userConnections :
            WriteIdx(sendToUser(Cur, u, e).R.trace, id) = {}
       /\ \A s \in DOMAIN sessionConnections :
            WriteIdx(sendToSession(Cur, s, e).R.trace, id) = {}
  /\ WriteIdx(heartbeat(Cur, now).trace, id) = {}

\* C34: the connected flag of a client never goes back from false to true
\* (so it changes from true to false at most once), and no frame is written
\* to the output handle of a client after its flag has become false.
C34_ConnectedFlagMonotone ==
  /\ [][\A id \in DOMAIN clients :
          (~clients[id].isConnected /\ id \in DOMAIN clients')
            => ~clients'[id].isConnected]_vars
  /\ [](\A id \in Disconnected : NoWriteTo(id))

\* a client that received its `connected` frame is still registered after a
\* failed disconnect, its flag false, and a send to it is refused
C34_Witness ==
  \E id \in DOMAIN clients :
    /\ ~clients[id].isConnected
    /\ id \in Disconnected
    /\ stats.totalEventsSent > 0
    /\ \E e \in Events : ~sendToClient(Cur, id, e).ok

\* no key of the index maps to the empty set
NoEmptyEntry(index) == \A k \in DOMAIN index : index[k] # {}

\* C35: every key present in the user index or the session index maps to a
\* non-empty set; removing the last clientId of a key removes the key.
C35_NoEmptyIndexEntries ==
  /\ NoEmptyEntry(userConnections)
  /\ NoEmptyEntry(sessionConnections)
  /\ \A id \in DOMAIN clients :
       LET r == disconnectClient(Cur, id)
           u == clients[id].userId
           s == clients[id].sessionId
       IN r.ok
            => /\ (Truthy(u) /\ userConnections[u] = {id})
                    => u \notin DOMAIN r.R.userConnections
               /\ (Truthy(s) /\ sessionConnections[s] = {id})
                    => s \notin DOMAIN r.R.sessionConnections

\* two clients of one user in different sessions: a successful disconnect of
\* one removes the last member of its session key and leaves the user key
\* with the other client
C35_Witness ==
  \E id \in DOMAIN clients :
    LET r == disconnectClient(Cur, id)
        u == clients[id].userId
        s == clients[id].sessionId
    IN /\ r.ok
       /\ Truthy(u) /\ Truthy(s)
       /\ Cardinality(userConnections[u]) = 2
       /\ sessionConnections[s] = {id}
       /\ s \notin DOMAIN r.R.sessionConnections
       /\ u \in DOMAIN r.R.userConnections
       /\ stats.totalConnections > Cardinality(DOMAIN clients)

\* every write and every close that throws in the steps of a call is caught
\* where it happens: the next step is the handleError of the catch block for
\* the same client, and the call goes on from there
Caught(trace) ==
  \A i \in DOMAIN trace :
    (trace[i].k \in {"write", "close"} /\ ~trace[i].ok)
      => /\ i + 1 \in DOMAIN trace
         /\ trace[i + 1].k = "error"
         /\ trace[i + 1].id = trace[i].id

\* C36: SendToClient, Broadcast, SendToUser, SendToSession, SendMessage,
\* DisconnectClient, the heartbeat sweep and Destroy never raise to their
\* caller when writes or closes of output handles fail: every such failure is
\* caught and the call completes with a boolean or a count; only Connect at
\* capacity reports a failure to the caller.
C36_NoOperationRaises ==
  /\ \A e \in Events :
       /\ \A id \in AllIds :
            LET r == sendToClient(Cur, id, e)
            IN r.ok \in BOOLEAN /\ Caught(r.R.trace)
       /\ LET r == broadcast(Cur, e)
          IN r.count \in Nat /\ Caught(r.R.trace)
       /\ \A u \in {"u1", "u2"} :
            LET r == sendToUser(Cur, u, e)
            IN r.count \in Nat /\ Caught(r.R.trace)
       /\ \A s \in {"s1", "s2"} :
            LET r == sendToSession(Cur, s, e)
            IN r.count \in Nat /\ Caught(r.R.trace)
       /\ \A a \in Addresses :
            LET r == sendMessage(Cur, Message(e, a[1], a[2]))
            IN r.count \in Nat /\ Caught(r.R.trace)
  /\ \A id \in AllIds :
       LET r == disconnectClient(Cur, id)
       IN r.ok \in BOOLEAN /\ Caught(r.R.trace)
  /\ Caught(heartbeat(Cur, now).trace)
  /\ Caught(destroy(Cur).trace)
  /\ \A p \in Profiles :
       connectClient(Cur, nextId, p[1], p[2], now).threw = AtCapacity(Cur)

\* a connected client whose stream was cancelled fills the registry: a
\* broadcast meets a failing write and then a failing close and returns 0,
\* and a Connect is refused
C36_Witness ==
  /\ AtCapacity(Cur)
  /\ \E e \in Events :
       LET r == broadcast(Cur, e)
       IN /\ Serializable(e)
          /\ r.count = 0
          /\ \E s \in StepsOf(r.R.trace, "write") : ~s.ok
          /\ \E s \in StepsOf(r.R.trace, "close") : ~s.ok
          /\ Cardinality(StepsOf(r.R.trace, "error")) = 2
  /\ \E p \in Profiles : connectClient(Cur, nextId, p[1], p[2], now).threw

\* C37: between operations every client held in the primary map has
\* isConnected true, so activeConnections counts only live clients and a
\* disconnected client does not keep a capacity slot.
C37_RegisteredClientsAreConnected ==
  /\ \A id \in DOMAIN clients : clients[id].isConnected
  /\ activeConnections = Cardinality(Connected)

\* C38: at most one SSEManager created through initializeSSE, and one
\* heartbeat timer, is alive at any time; initializeSSE while initialized
\* returns the existing manager and ignores the new configuration; no
\* service operation has an effect before initializeSSE or after destroySSE,
\* where getSSEManager throws the not-initialized error; initializeSSE after
\* destroySSE gives a fresh manager with empty maps and zero counters.
C38_ServiceSingleton ==
  /\ [](/\ timers <= 1
        /\ timers = 1 => (sseManager /\ heartbeatTimer)
        /\ getSSEManager(CurService).threw = ~sseManager
        /\ sseManager => /\ ~initializeSSE(CurService).created
                         /\ initializeSSE(CurService).S = CurService)
  /\ [][/\ (sseManager /\ sseManager') => config' = config
        /\ (~sseManager /\ ~sseManager')
             => UNCHANGED <<config, clients, userConnections,
                            sessionConnections, stats, heartbeatTimer, nextId>>
        /\ (~sseManager /\ sseManager')
             => /\ clients' = << >>
                /\ userConnections' = << >>
                /\ sessionConnections' = << >>
                /\ stats' = [totalConnections |-> 0, totalEventsSent |-> 0,
                             totalErrors |-> 0]
                /\ heartbeatTimer'
                /\ timers' = 1]_vars

\* a manager made by initializeSSE after ids were given out by an earlier
\* one that destroySSE destroyed: it has served a client of its own, its
\* timer is the only one, and another initializeSSE returns it
C38_Witness ==
  /\ sseManager
  /\ timers = 1
  /\ stats.totalConnections = 1
  /\ nextId > 2
  /\ config # KeepAliveConfig
  /\ ~initializeSSE(CurService).created

\* C39: after a manual disconnect() no new EventSource is created and no
\* reconnection timer fires until connect() is called again, whatever error
\* events came before the disconnect.
C39_NoReconnectAfterDisconnect ==
  [][~shouldReconnect
       => \/ HookConnect
          \/ /\ Unclosed(CurHook)' <= Unclosed(CurHook)
             /\ orphanTimers' >= orphanTimers
             /\ ~timerRef']_vars

\* C40: a hook instance holds at most one unclosed EventSource at any time,
\* and disconnect() closes every EventSource the hook created.
C40_SingleEventSource ==
  /\ Unclosed(CurHook) <= 1
  /\ Unclosed(disconnect(CurHook)) = 0

====
